---- MODULE Spec2Model ----
(***************************************************************************)
(* Model of src/penguin_slide.py: the Terrain height field and the Penguin *)
(* locomotion state machine (Grounded / Airborne).                         *)
(*                                                                         *)
(* Python floats are modelled in fixed point:                              *)
(*   lengths, heights and speeds  in 1/PX pixel (pixel/s),                 *)
(*   slopes, tangents and charge  in 1/MILLI,                              *)
(*   wave angles                  in 1/DEG degree,                         *)
(*   dt                           in frames of 1/FPS second.               *)
(* Every product is ordered so that it stays inside 32 bit integers.       *)
(***************************************************************************)
EXTENDS Integers, Sequences, FiniteSets, TLC

VARIABLES terrain,    \* the Terrain the Penguin slides on: [base_height, waves]
          terrain2,   \* a second, independently constructed Terrain instance
          seed,       \* the seed argument terrain was constructed with
          seed2,      \* the seed argument terrain2 was constructed with
          penguin,    \* the Penguin's fields
          pre,        \* the Penguin's fields at entry of the last update() call
          dt_in,      \* the dt argument of the last update() call (frames)
          hold_in,    \* the holding_space argument of the last update() call
          ticks       \* number of update() calls made so far

vars == <<terrain, terrain2, seed, seed2, penguin, pre, dt_in, hold_in, ticks>>

-----------------------------------------------------------------------------
(* Fixed-point resolutions *)

PX == 10
MILLI == 1000
DEG == 100
TURN == 360 * DEG
TAU == 6283            \* math.tau in 1/MILLI

(* Game wide configuration values *)

HEIGHT == 540
FPS == 60

(* Physics tuning *)

GRAVITY == 1800 * PX
BASE_SCROLL_SPEED == 260 * PX
SLIDE_GRAVITY_MULT == 165          \* 1.65, in hundredths
GROUND_DRAG == 35                  \* 0.35, in hundredths
AIR_DRAG == 4                      \* 0.04, in hundredths
RELEASE_POP == 220 * PX
PERFECT_CHARGE_RATE == 1600        \* 1.6 per second, in 1/MILLI
PERFECT_DECAY == 400               \* 0.4 per second, in 1/MILLI
PERFECT_DOWNHILL_SLOPE == -300     \* -0.3
PERFECT_RELEASE_SLOPE == 80        \* 0.08
PERFECT_BOOST == 180 * PX
MIN_LAUNCH_SPEED == 140 * PX
SPEED_FLOOR == 20 * PX             \* max(20.0, ...)
UPHILL_PENALTY == 120 * PX         \* slope * 120.0 * dt
RELEASE_CHARGE == 150              \* perfect_charge > 0.15
NEAR_FLAT_SLOPE == -20             \* slope > -0.02
DIVE_GRAVITY == 30                 \* GRAVITY * 0.3, in hundredths
START_X == 120 * PX                \* world_x: float = 120.0

None == -1              \* seed: int | None = None (integer seeds are >= 0)

-----------------------------------------------------------------------------
(* Arithmetic helpers: max, min, abs, sqrt *)

Max(a, b) == IF a >= b THEN a ELSE b
Min(a, b) == IF a <= b THEN a ELSE b
Abs(a) == IF a < 0 THEN -a ELSE a

SQRT_HI == 46340       \* largest r with r*r inside 32 bit integers

RECURSIVE SqrtIter(_, _, _)
SqrtIter(n, lo, hi) ==
    IF lo >= hi THEN lo
    ELSE LET mid == (lo + hi + 1) \div 2
         IN  IF mid * mid <= n THEN SqrtIter(n, mid, hi)
                               ELSE SqrtIter(n, lo, mid - 1)

Sqrt(n) == SqrtIter(n, 0, SQRT_HI)

hypot(a, b) == Sqrt(a * a + b * b)

-----------------------------------------------------------------------------
(* math.sin / math.cos on wave angles: a one-degree table of sin, in       *)
(* 1/MILLI, interpolated linearly between degrees.                         *)

SinTable == <<
   0, 17, 35, 52, 70, 87, 105, 122, 139, 156, 174, 191, 208, 225, 242, 259,
   276, 292, 309, 326, 342, 358, 375, 391, 407, 423, 438, 454, 469, 485, 500,
   515, 530, 545, 559, 574, 588, 602, 616, 629, 643, 656, 669, 682, 695, 707,
   719, 731, 743, 755, 766, 777, 788, 799, 809, 819, 829, 839, 848, 857, 866,
   875, 883, 891, 899, 906, 914, 921, 927, 934, 940, 946, 951, 956, 961, 966,
   970, 974, 978, 982, 985, 988, 990, 993, 995, 996, 998, 999, 999, 1000, 1000 >>

SinDeg(d) ==
    LET r == d % 360
    IN  IF r <= 90 THEN SinTable[r + 1]
        ELSE IF r <= 180 THEN SinTable[180 - r + 1]
        ELSE IF r <= 270 THEN -SinTable[r - 180 + 1]
        ELSE -SinTable[360 - r + 1]

sin(a) ==
    LET r == a % TURN
        d == r \div DEG
        f == r % DEG
    IN  SinDeg(d) + (((SinDeg(d + 1) - SinDeg(d)) * f) \div DEG)

cos(a) == sin(a + 90 * DEG)

(* cos(atan(slope)) and sin(atan(slope)): the unit tangent of the surface *)
tangent_x(slope) == (MILLI * MILLI) \div Sqrt(MILLI * MILLI + slope * slope)
tangent_y(slope) == (slope * MILLI) \div Sqrt(MILLI * MILLI + slope * slope)

-----------------------------------------------------------------------------
(* random.Random(seed): a deterministic stream for a given seed; seeded    *)
(* from operating-system entropy when the seed is None.                    *)

LCG_M == 65537
LCG_A == 75
LCG_C == 74

rng_next(s) == (s * LCG_A + LCG_C) % LCG_M

rng_seed(sd) == rng_next(rng_next(sd % LCG_M))

(* rng.uniform(a, b) on the stream value s, in units of 1/scale *)
uniform(s, a, b) == a + (((b - a) * s) \div LCG_M)

NWAVES == 4

(* the body of the loop of Terrain.__init__: three draws per wave *)
RECURSIVE build_waves(_, _)
build_waves(s, k) ==
    IF k = 0 THEN << >>
    ELSE LET s1 == rng_next(s)
             s2 == rng_next(s1)
             s3 == rng_next(s2)
             amplitude  == uniform(s1, 40, 120)
             wavelength == uniform(s2, 280, 520)
             phase      == uniform(s3, 0, 3600) * (DEG \div 10)
         IN  <<  <<amplitude, wavelength, phase>> >> \o build_waves(s3, k - 1)

DEFAULT_BASE_HEIGHT == ((HEIGHT * 65) \div 100) * PX

(* Terrain.__init__ with the generator in state s0 *)
Terrain(base, s0) == [base_height |-> base, waves |-> build_waves(s0, NWAVES)]

(* the argument of sin/cos for one wave: (x / wavelength) * tau + phase *)
wave_angle(x, wavelength, phase) ==
    (((x * 360 * (DEG \div PX)) \div wavelength) + phase) % TURN

RECURSIVE height_sum(_, _, _)
height_sum(waves, x, i) ==
    IF i > Len(waves) THEN 0
    ELSE ((waves[i][1] * PX * sin(wave_angle(x, waves[i][2], waves[i][3]))) \div MILLI)
         + height_sum(waves, x, i + 1)

height(t, x) == t.base_height + height_sum(t.waves, x, 1)

RECURSIVE slope_sum(_, _, _)
slope_sum(waves, x, i) ==
    IF i > Len(waves) THEN 0
    ELSE ((waves[i][1] * cos(wave_angle(x, waves[i][2], waves[i][3])) * TAU)
             \div (MILLI * waves[i][2]))
         + slope_sum(waves, x, i + 1)

(* slope summing A * sin(...) * (tau / wavelength): the sine left in place *)
RECURSIVE slope_sum_sin(_, _, _)
slope_sum_sin(waves, x, i) ==
    IF i > Len(waves) THEN 0
    ELSE ((waves[i][1] * sin(wave_angle(x, waves[i][2], waves[i][3])) * TAU)
             \div (MILLI * waves[i][2]))
         + slope_sum_sin(waves, x, i + 1)

slope_with_sin(t, x) == slope_sum_sin(t.waves, x, 1)

slope(t, x) == slope_sum(t.waves, x, 1)

-----------------------------------------------------------------------------
(* Penguin: the dataclass defaults and __post_init__ *)

Penguin(t) ==
    [ world_x            |-> START_X,
      y                  |-> height(t, START_X),
      vx                 |-> BASE_SCROLL_SPEED,
      vy                 |-> 0,
      speed_along_ground |-> BASE_SCROLL_SPEED,
      on_ground          |-> TRUE,
      perfect_charge     |-> 0,
      prev_slope         |-> slope(t, START_X),
      was_holding        |-> FALSE ]

(* ground_speed without the floor of line 105 *)
ground_speed_no_floor(speed, sl, dt, holding_space) ==
    LET gravity_along == (GRAVITY * tangent_y(sl)) \div MILLI
        accel == IF holding_space
                 THEN (gravity_along * SLIDE_GRAVITY_MULT) \div 100
                 ELSE gravity_along
        s1 == speed + ((accel * dt) \div FPS)
        s2 == IF sl > 0
              THEN s1 - ((sl * UPHILL_PENALTY * dt) \div (MILLI * FPS))
              ELSE s1
    IN  s2 - ((s2 * GROUND_DRAG * dt) \div (100 * FPS))

(* ground_speed integrating a fixed step of one frame instead of dt *)
ground_speed_fixed_step(speed, sl, dt, holding_space) ==
    Max(SPEED_FLOOR, ground_speed_no_floor(speed, sl, 1, holding_space))

(* _update_ground, lines 93-105: gravity along the slope, uphill penalty,  *)
(* ground drag and the floor                                               *)
ground_speed(speed, sl, dt, holding_space) ==
    LET gravity_along == (GRAVITY * tangent_y(sl)) \div MILLI
        accel == IF holding_space
                 THEN (gravity_along * SLIDE_GRAVITY_MULT) \div 100
                 ELSE gravity_along
        s1 == speed + ((accel * dt) \div FPS)
        s2 == IF sl > 0
              THEN s1 - ((sl * UPHILL_PENALTY * dt) \div (MILLI * FPS))
              ELSE s1
        s3 == s2 - ((s2 * GROUND_DRAG * dt) \div (100 * FPS))
    IN  Max(SPEED_FLOOR, s3)

(* charge_update without the min(1.0, ...) of line 114 *)
charge_update_no_min(charge, sl, dt, holding_space) ==
    IF holding_space /\ sl < PERFECT_DOWNHILL_SLOPE
    THEN charge + ((PERFECT_CHARGE_RATE * dt) \div FPS)
    ELSE Max(0, charge - ((PERFECT_DECAY * dt) \div FPS))

(* _update_ground, lines 113-116: charge while holding on a steep downhill, *)
(* decay otherwise                                                          *)
charge_update(charge, sl, dt, holding_space) ==
    IF holding_space /\ sl < PERFECT_DOWNHILL_SLOPE
    THEN Min(MILLI, charge + ((PERFECT_CHARGE_RATE * dt) \div FPS))
    ELSE Max(0, charge - ((PERFECT_DECAY * dt) \div FPS))

(* perfect_release testing "slope <= PERFECT_RELEASE_SLOPE" without abs() *)
perfect_release_no_abs(was_holding, holding_space, charge, sl) ==
    /\ ~holding_space
    /\ was_holding
    /\ charge > RELEASE_CHARGE
    /\ sl <= PERFECT_RELEASE_SLOPE

(* _update_ground, lines 119-120: the perfect-release condition *)
perfect_release(was_holding, holding_space, charge, sl) ==
    /\ ~holding_space
    /\ was_holding
    /\ charge > RELEASE_CHARGE
    /\ Abs(sl) <= PERFECT_RELEASE_SLOPE

(* normal_launch without the "not holding_space" of line 127 *)
normal_launch_while_held(holding_space, sl, speed) ==
    /\ sl > NEAR_FLAT_SLOPE
    /\ speed > MIN_LAUNCH_SPEED

(* normal_launch asking for a rising slope: "slope > 0.02" for "slope > -0.02" *)
normal_launch_rising_only(holding_space, sl, speed) ==
    /\ ~holding_space
    /\ sl > -NEAR_FLAT_SLOPE
    /\ speed > MIN_LAUNCH_SPEED

(* normal_launch testing "slope >= -0.02" for "slope > -0.02" *)
normal_launch_at_or_above(holding_space, sl, speed) ==
    /\ ~holding_space
    /\ sl >= NEAR_FLAT_SLOPE
    /\ speed > MIN_LAUNCH_SPEED

(* _update_ground, line 127: the ordinary launch condition *)
normal_launch(holding_space, sl, speed) ==
    /\ ~holding_space
    /\ sl > NEAR_FLAT_SLOPE
    /\ speed > MIN_LAUNCH_SPEED

(* launch_from_slope with the tangent components swapped *)
launch_from_slope_swapped(p, sl) ==
    LET speed == Max(p.speed_along_ground, MIN_LAUNCH_SPEED)
    IN  [p EXCEPT !.vx = (speed * tangent_y(sl)) \div MILLI,
                  !.vy = ((speed * tangent_x(sl)) \div MILLI) - RELEASE_POP,
                  !.on_ground = FALSE]

launch_from_slope(p, sl) ==
    LET speed == Max(p.speed_along_ground, MIN_LAUNCH_SPEED)
    IN  [p EXCEPT !.vx = (speed * tangent_x(sl)) \div MILLI,
                  !.vy = ((speed * tangent_y(sl)) \div MILLI) - RELEASE_POP,
                  !.on_ground = FALSE]

(* stick_to_ground that also clears the charge on touching the ground *)
stick_to_ground_clears_charge(p, sl) ==
    LET speed == Max(SPEED_FLOOR, hypot(p.vx, p.vy))
    IN  [p EXCEPT !.speed_along_ground = speed,
                  !.vx = (speed * tangent_x(sl)) \div MILLI,
                  !.vy = (speed * tangent_y(sl)) \div MILLI,
                  !.on_ground = TRUE,
                  !.perfect_charge = 0]

stick_to_ground(p, sl) ==
    LET speed == Max(SPEED_FLOOR, hypot(p.vx, p.vy))
    IN  [p EXCEPT !.speed_along_ground = speed,
                  !.vx = (speed * tangent_x(sl)) \div MILLI,
                  !.vy = (speed * tangent_y(sl)) \div MILLI,
                  !.on_ground = TRUE]

update_ground(t, p, dt, holding_space) ==
    LET ground_y == height(t, p.world_x)
        sl       == slope(t, p.world_x)
        speed    == ground_speed(p.speed_along_ground, sl, dt, holding_space)
        vx       == (speed * tangent_x(sl)) \div MILLI
        vy       == (speed * tangent_y(sl)) \div MILLI
        charge   == charge_update(p.perfect_charge, sl, dt, holding_space)
        p1 == [p EXCEPT !.speed_along_ground = speed,
                        !.vx = vx,
                        !.vy = vy,
                        !.world_x = p.world_x + ((vx * dt) \div FPS),
                        !.y = ground_y,
                        !.perfect_charge = charge]
    IN  IF perfect_release(p.was_holding, holding_space, charge, sl)
        THEN launch_from_slope(
                 [p1 EXCEPT !.speed_along_ground =
                                speed + ((PERFECT_BOOST * charge) \div MILLI),
                            !.perfect_charge = 0], sl)
        ELSE IF normal_launch(holding_space, sl, speed)
        THEN launch_from_slope(p1, sl)
        ELSE p1

(* _update_air, lines 132-137: gravity, dive and air drag *)
air_vy(vy, dt, holding_space) ==
    vy + ((GRAVITY * dt) \div FPS)
       + (IF holding_space THEN (GRAVITY * DIVE_GRAVITY * dt) \div (100 * FPS) ELSE 0)

air_vx(vx, dt) == vx - ((vx * AIR_DRAG * dt) \div (100 * FPS))

(* landing condition with the sign of the vertical velocity test flipped *)
landing_while_rising(y, ground_y, vy) == y >= ground_y /\ vy <= 0

(* _update_air, line 143: the landing condition *)
landing(y, ground_y, vy) == y >= ground_y /\ vy >= 0

(* touch_down without the "self.y = ground_y" of lines 147 and 151 *)
touch_down_no_snap(p, ground_y, sl, holding_space) ==
    IF holding_space
    THEN stick_to_ground(p, sl)
    ELSE launch_from_slope(stick_to_ground(p, sl), sl)

(* touch_down that resumes sliding whether or not the input is held *)
touch_down_always_sticks(p, ground_y, sl, holding_space) ==
    stick_to_ground([p EXCEPT !.y = ground_y], sl)

(* _update_air, lines 144-153: snap to the surface and resume sliding when *)
(* diving, otherwise touch down and launch again at once                   *)
touch_down(p, ground_y, sl, holding_space) ==
    IF holding_space
    THEN stick_to_ground([p EXCEPT !.y = ground_y], sl)
    ELSE launch_from_slope(stick_to_ground([p EXCEPT !.y = ground_y], sl), sl)

update_air(t, p, dt, holding_space) ==
    LET vy == air_vy(p.vy, dt, holding_space)
        vx == air_vx(p.vx, dt)
        wx == p.world_x + ((vx * dt) \div FPS)
        y  == p.y + ((vy * dt) \div FPS)
        ground_y == height(t, wx)
        p1 == [p EXCEPT !.vx = vx, !.vy = vy, !.world_x = wx, !.y = y]
    IN  IF landing(y, ground_y, vy)
        THEN touch_down(p1, ground_y, slope(t, wx), holding_space)
        ELSE p1

update(t, p, dt, holding_space) ==
    LET q == IF p.on_ground THEN update_ground(t, p, dt, holding_space)
                            ELSE update_air(t, p, dt, holding_space)
    IN  [q EXCEPT !.was_holding = holding_space,
                  !.prev_slope = slope(t, q.world_x)]

-----------------------------------------------------------------------------
(* Bounds of the model *)

MaxTicks == 4          \* update() calls explored per run
MaxTicksNeg == 3       \* update() calls explored when dt may be negative
MaxTicksTwo == 2       \* update() calls explored with two Terrain instances
HitchFrames == 6       \* a frame hitch: dt of 6 frames (0.1 s)
StallFrames == 40      \* a long stall: dt of 40 frames (0.67 s)

SeedArgs == {None, 11}
Entropy == {202, 639}
DtValues == {0, 1, HitchFrames, StallFrames}
DtAny == DtValues \cup {-1, -HitchFrames}

MaxTicksFlat == 300    \* update() calls of the flat-terrain scenario

BaseHeights == {DEFAULT_BASE_HEIGHT, 300 * PX}

FD_STEP == 100         \* half-width of the difference quotient: 10 pixels
FD_TOL == 100          \* tolerance of the cross-check: 0.1 in slope

NoTerrain == [base_height |-> 0, waves |-> << >>]

(* random.Random() taking no seed: always seeded from entropy *)
rng_states_unseeded(sd) == Entropy

(* the generator states random.Random(sd) can start in *)
rng_states(sd) == IF sd = None THEN Entropy ELSE {rng_seed(sd)}

-----------------------------------------------------------------------------
(* Construction: main() builds one Terrain and one Penguin on it *)

InitPenguin ==
    /\ penguin = Penguin(terrain)
    /\ pre = penguin
    /\ dt_in = 0
    /\ hold_in = FALSE
    /\ ticks = 0

Init ==
    /\ seed \in SeedArgs
    /\ \E s0 \in rng_states(seed) : terrain = Terrain(DEFAULT_BASE_HEIGHT, s0)
    /\ seed2 = None
    /\ terrain2 = NoTerrain
    /\ InitPenguin

(* one call of Penguin.update(dt, holding_space) *)
Call(dt, holding_space) ==
    /\ penguin' = update(terrain, penguin, dt, holding_space)
    /\ pre' = penguin
    /\ dt_in' = dt
    /\ hold_in' = holding_space
    /\ ticks' = ticks + 1
    /\ UNCHANGED <<terrain, terrain2, seed, seed2>>

(* update() on a Penguin that is on the ground: _update_ground runs *)
UpdateGround(D, H, n) ==
    /\ ticks < n
    /\ penguin.on_ground
    /\ \E dt \in D, holding_space \in H : Call(dt, holding_space)

(* update() on a Penguin that is in the air: _update_air runs *)
UpdateAir(D, H, n) ==
    /\ ticks < n
    /\ ~penguin.on_ground
    /\ \E dt \in D, holding_space \in H : Call(dt, holding_space)

Next ==
    \/ UpdateGround(DtValues, BOOLEAN, MaxTicks)
    \/ UpdateAir(DtValues, BOOLEAN, MaxTicks)

Spec == Init /\ [][Next]_vars

(* The flat-terrain scenario: every wave's amplitude set to 0, input never *)
(* held, dt = 1/60 s on every tick.                                        *)
flat(t) ==
    [t EXCEPT !.waves = [i \in DOMAIN t.waves |-> <<0, t.waves[i][2], t.waves[i][3]>>]]

InitFlat ==
    /\ seed \in SeedArgs
    /\ \E s0 \in rng_states(seed) : terrain = flat(Terrain(DEFAULT_BASE_HEIGHT, s0))
    /\ seed2 = None
    /\ terrain2 = NoTerrain
    /\ InitPenguin

NextFlat ==
    \/ UpdateGround({1}, {FALSE}, MaxTicksFlat)
    \/ UpdateAir({1}, {FALSE}, MaxTicksFlat)

SpecFlat == InitFlat /\ [][NextFlat]_vars

(* update() called with any dt, negative ones included: nothing in        *)
(* update() or its callers' signature restricts the argument.              *)
NextAnyDt ==
    \/ UpdateGround(DtAny, BOOLEAN, MaxTicksNeg)
    \/ UpdateAir(DtAny, BOOLEAN, MaxTicksNeg)

SpecAnyDt == Init /\ [][NextAnyDt]_vars

(* Two Terrain instances constructed independently, each from its own seed *)
(* and base_height arguments; the Penguin slides on the first.             *)
InitTwo ==
    /\ seed \in SeedArgs
    /\ seed2 \in SeedArgs
    /\ \E s0 \in rng_states(seed), base \in BaseHeights :
           terrain = Terrain(base, s0)
    /\ \E s0 \in rng_states(seed2), base \in BaseHeights :
           terrain2 = Terrain(base, s0)
    /\ InitPenguin

NextTwo ==
    \/ UpdateGround(DtValues, BOOLEAN, MaxTicksTwo)
    \/ UpdateAir(DtValues, BOOLEAN, MaxTicksTwo)

SpecTwo == InitTwo /\ [][NextTwo]_vars

(* main() on terrains drawn without a seed, one of which has a slope of   *)
(* exactly -0.02 under the Penguin's starting point                        *)
EntropyNearFlat == Entropy \cup {5986}

InitNearFlat ==
    /\ seed = None
    /\ \E s0 \in EntropyNearFlat : terrain = Terrain(DEFAULT_BASE_HEIGHT, s0)
    /\ seed2 = None
    /\ terrain2 = NoTerrain
    /\ InitPenguin

SpecNearFlat == InitNearFlat /\ [][Next]_vars

-----------------------------------------------------------------------------
(* What the last update() call saw and computed, for stating the claims *)

Ticked == ticks > 0

(* the slope _update_ground read: at world_x on entry *)
EntrySlope == slope(terrain, pre.world_x)

(* the central difference quotient of Terrain.height at x, as a slope *)
difference_quotient(t, x) ==
    ((height(t, x + FD_STEP) - height(t, x - FD_STEP)) * MILLI) \div (2 * FD_STEP)

(* Terrain.slope(x) agrees with the difference quotient of Terrain.height  *)
slope_is_derivative(t, x) ==
    /\ slope(t, x) - difference_quotient(t, x) <= FD_TOL
    /\ difference_quotient(t, x) - slope(t, x) <= FD_TOL

(* what _update_ground computed before it tested for a launch *)
BaseSpeed == ground_speed(pre.speed_along_ground, EntrySlope, dt_in, hold_in)
ChargeNow == charge_update(pre.perfect_charge, EntrySlope, dt_in, hold_in)
Boost == (PERFECT_BOOST * ChargeNow) \div MILLI

(* a grounded tick on a release edge, charged, near the valley bottom *)
ReleaseTick ==
    /\ Ticked
    /\ pre.on_ground
    /\ ~hold_in
    /\ pre.was_holding
    /\ ChargeNow > RELEASE_CHARGE
    /\ EntrySlope <= PERFECT_RELEASE_SLOPE
    /\ EntrySlope >= -PERFECT_RELEASE_SLOPE

(* a grounded tick with the input not held now nor on the tick before *)
NoEdgeTick ==
    /\ Ticked
    /\ pre.on_ground
    /\ ~hold_in
    /\ ~pre.was_holding

(* the longest dt, in frames, with AIR_DRAG * dt < 1 *)
DragLimitFrames == ((100 * FPS) \div AIR_DRAG) - 1

(* what _update_air integrated before it tested for landing *)
AirVy == air_vy(pre.vy, dt_in, hold_in)
AirVx == air_vx(pre.vx, dt_in)
AirX == pre.world_x + ((AirVx * dt_in) \div FPS)
AirY == pre.y + ((AirVy * dt_in) \div FPS)

(* an airborne tick that reached the terrain while descending *)
LandingContact ==
    /\ Ticked
    /\ ~pre.on_ground
    /\ AirY >= height(terrain, AirX)
    /\ AirVy >= 0

-----------------------------------------------------------------------------
(* C1: after every update() call with dt >= 0, in both modes and across    *)
(* launches and landings, 0 <= perfect_charge <= 1.                        *)
C1_ChargeInRange ==
    /\ penguin.perfect_charge >= 0
    /\ penguin.perfect_charge <= MILLI

(* C1 witness: a grounded tick whose unclamped charge would pass 1.0 *)
C1_Witness ==
    /\ Ticked
    /\ pre.on_ground
    /\ hold_in
    /\ EntrySlope < PERFECT_DOWNHILL_SLOPE
    /\ pre.perfect_charge + ((PERFECT_CHARGE_RATE * dt_in) \div FPS) > MILLI
    /\ penguin.perfect_charge = MILLI

(* C2: whenever a tick ends Grounded, speed_along_ground is at least the   *)
(* floor 20.0, after ordinary grounded ticks and after landings.           *)
C2_SpeedFloor ==
    (Ticked /\ penguin.on_ground) => penguin.speed_along_ground >= SPEED_FLOOR

(* C2 witness: a grounded tick on which drag and slope would have taken    *)
(* the speed below the floor                                               *)
C2_Witness ==
    /\ Ticked
    /\ pre.on_ground
    /\ penguin.on_ground
    /\ ground_speed_no_floor(pre.speed_along_ground, EntrySlope, dt_in, hold_in)
           < SPEED_FLOOR
    /\ penguin.speed_along_ground = SPEED_FLOOR

(* C10: a tick that starts Grounded with holding_space = true ends         *)
(* Grounded, whatever the slope, speed or charge.                          *)
C10_HeldStaysGrounded ==
    (Ticked /\ pre.on_ground /\ hold_in) => penguin.on_ground

(* C10 witness: a held grounded tick on a slope and at a speed that would  *)
(* launch the Penguin were the input released                              *)
C10_Witness ==
    /\ Ticked
    /\ pre.on_ground
    /\ hold_in
    /\ EntrySlope > NEAR_FLAT_SLOPE
    /\ penguin.speed_along_ground > MIN_LAUNCH_SPEED
    /\ penguin.on_ground

(* C3, as claimed: an airborne tick that reaches the terrain while         *)
(* descending ends Grounded with y exactly Terrain.height(world_x), for    *)
(* either value of holding_space.                                          *)
C3_LandsGrounded ==
    LandingContact =>
        /\ penguin.on_ground
        /\ penguin.y = height(terrain, penguin.world_x)

(* C3, amended: such a tick ends with y exactly Terrain.height(world_x) at *)
(* the landing world_x; it ends Grounded when holding_space is true and    *)
(* Airborne (touch down and launch again) when holding_space is false.     *)
C3_LandsOnSurface ==
    LandingContact =>
        /\ penguin.world_x = AirX
        /\ penguin.y = height(terrain, penguin.world_x)
        /\ (penguin.on_ground <=> hold_in)

(* C3 witness: a dive that had passed below the surface and was snapped    *)
(* onto it                                                                 *)
C3_Witness ==
    /\ LandingContact
    /\ hold_in
    /\ AirY > height(terrain, AirX)
    /\ penguin.on_ground
    /\ penguin.y = height(terrain, AirX)

(* C4, as claimed: on flat terrain, started Grounded at the default speed  *)
(* and ticked with dt = 1/60 and the input not held, the Penguin is        *)
(* Grounded after every tick.                                              *)
C4_FlatStaysGrounded == penguin.on_ground

(* C4, amended: in that scenario the Penguin launches on the first tick    *)
(* (slope 0 > -0.02 and speed > MIN_LAUNCH_SPEED) and is Airborne after    *)
(* every one of the 300 ticks.                                             *)
C4_FlatAirborne == Ticked => ~penguin.on_ground

(* C4 witness: the end of the scenario, with the terrain flat *)
C4_Witness ==
    /\ ticks = MaxTicksFlat
    /\ dt_in = 1
    /\ ~hold_in
    /\ slope(terrain, penguin.world_x) = 0
    /\ slope(terrain, START_X) = 0
    /\ ~penguin.on_ground

(* C5, as claimed: update() with dt = 0 leaves world_x, y, vx, vy,         *)
(* on_ground, speed_along_ground and perfect_charge unchanged.             *)
C5_DtZeroUnchanged ==
    (Ticked /\ dt_in = 0) =>
        /\ penguin.world_x = pre.world_x
        /\ penguin.y = pre.y
        /\ penguin.vx = pre.vx
        /\ penguin.vy = pre.vy
        /\ penguin.on_ground = pre.on_ground
        /\ penguin.speed_along_ground = pre.speed_along_ground
        /\ penguin.perfect_charge = pre.perfect_charge

(* C5, amended: update() with dt = 0 leaves world_x unchanged; a tick that *)
(* starts and ends Grounded also leaves speed_along_ground and             *)
(* perfect_charge unchanged (y, vx and vy are derived anew from the        *)
(* terrain at world_x); an Airborne tick that does not meet the landing    *)
(* condition leaves every field but was_holding unchanged.                 *)
C5_DtZeroFrame ==
    (Ticked /\ dt_in = 0) =>
        /\ penguin.world_x = pre.world_x
        /\ (pre.on_ground /\ penguin.on_ground) =>
               /\ penguin.speed_along_ground = pre.speed_along_ground
               /\ penguin.perfect_charge = pre.perfect_charge
        /\ (~pre.on_ground /\ ~LandingContact) =>
               /\ penguin.y = pre.y
               /\ penguin.vx = pre.vx
               /\ penguin.vy = pre.vy
               /\ ~penguin.on_ground
               /\ penguin.speed_along_ground = pre.speed_along_ground
               /\ penguin.perfect_charge = pre.perfect_charge

(* C5 witness: a dt = 0 tick that stays Grounded, has speed and charge to  *)
(* keep, and derives a different velocity from the terrain                 *)
C5_Witness ==
    /\ Ticked
    /\ dt_in = 0
    /\ pre.on_ground
    /\ penguin.on_ground
    /\ pre.perfect_charge > 0
    /\ penguin.perfect_charge = pre.perfect_charge
    /\ penguin.speed_along_ground = pre.speed_along_ground
    /\ penguin.vx # pre.vx

(* C6: the perfect-release boost is applied exactly on a tick that starts  *)
(* Grounded on a release edge with the updated charge above 0.15 and       *)
(* |slope| <= PERFECT_RELEASE_SLOPE. Then the speed is raised by           *)
(* PERFECT_BOOST * perfect_charge before the launch velocity is computed,  *)
(* the charge is 0 after the tick and the tick ends Airborne. On every     *)
(* other tick no boost is added.                                           *)
C6_BoostExactlyOnRelease ==
    Ticked =>
        /\ ReleaseTick =>
               /\ Boost > 0
               /\ penguin.speed_along_ground = BaseSpeed + Boost
               /\ penguin.vx = (Max(BaseSpeed + Boost, MIN_LAUNCH_SPEED)
                                    * tangent_x(EntrySlope)) \div MILLI
               /\ penguin.vy = ((Max(BaseSpeed + Boost, MIN_LAUNCH_SPEED)
                                    * tangent_y(EntrySlope)) \div MILLI) - RELEASE_POP
               /\ penguin.perfect_charge = 0
               /\ ~penguin.on_ground
        /\ (pre.on_ground /\ ~ReleaseTick) =>
               /\ penguin.speed_along_ground = BaseSpeed
               /\ penguin.perfect_charge = ChargeNow
        /\ ~pre.on_ground =>
               penguin.speed_along_ground =
                   IF LandingContact THEN Max(SPEED_FLOOR, hypot(AirVx, AirVy))
                                     ELSE pre.speed_along_ground

(* C6 witness: a release tick that added the boost and took off *)
C6_Witness ==
    /\ ReleaseTick
    /\ penguin.speed_along_ground = BaseSpeed + Boost
    /\ penguin.speed_along_ground > BaseSpeed
    /\ penguin.perfect_charge = 0
    /\ ~penguin.on_ground

(* C7: a tick called with a negative dt is rejected or clamped rather than *)
(* integrated: afterwards the state is unchanged, or is the result of a    *)
(* tick with dt clamped to 0; world_x has not moved backwards and          *)
(* perfect_charge is within [0,1].                                         *)
C7_NegativeDtRejected ==
    (Ticked /\ dt_in < 0) =>
        /\ \/ penguin = pre
           \/ penguin = [pre EXCEPT !.was_holding = hold_in]
           \/ penguin = update(terrain, pre, 0, hold_in)
        /\ penguin.world_x >= pre.world_x
        /\ penguin.perfect_charge >= 0
        /\ penguin.perfect_charge <= MILLI

(* C8: two Terrain instances built with the same non-None seed and         *)
(* base_height have identical wave lists, hence identical height and slope *)
(* at every x, and no update() call changes base_height or waves.          *)
C8_TerrainDeterministic ==
    /\ [](  (seed = seed2 /\ seed # None) =>
                /\ terrain.waves = terrain2.waves
                /\ terrain.base_height = terrain2.base_height =>
                       /\ terrain = terrain2
                       /\ height(terrain, penguin.world_x)
                              = height(terrain2, penguin.world_x)
                       /\ slope(terrain, penguin.world_x)
                              = slope(terrain2, penguin.world_x) )
    /\ [][terrain' = terrain /\ terrain2' = terrain2]_vars

(* C8 witness: two instances from the same seed and base_height, after     *)
(* update() calls have run on the first                                    *)
C8_Witness ==
    /\ ticks = MaxTicksTwo
    /\ seed = seed2
    /\ seed # None
    /\ terrain.base_height = terrain2.base_height
    /\ Len(terrain.waves) = NWAVES
    /\ terrain.waves = terrain2.waves

(* C9: Terrain.slope(x) is the derivative of Terrain.height(x), summed     *)
(* over the same waves, with base_height contributing nothing: at every x  *)
(* the Penguin visits, slope(x) equals the central difference quotient of  *)
(* height within the tolerance, and does not depend on base_height.        *)
C9_SlopeIsDerivative ==
    /\ slope_is_derivative(terrain, penguin.world_x)
    /\ slope([terrain EXCEPT !.base_height = 0], penguin.world_x)
           = slope(terrain, penguin.world_x)

(* C9 witness: a point the Penguin reached where the terrain is steep      *)
C9_Witness ==
    /\ Ticked
    /\ penguin.world_x # pre.world_x
    /\ slope(terrain, penguin.world_x) > MILLI
    /\ difference_quotient(terrain, penguin.world_x) > MILLI - FD_TOL
    /\ slope_is_derivative(terrain, penguin.world_x)

(* C11, as claimed: a tick that starts Grounded with the input not held   *)
(* and no release edge ends Airborne if and only if the slope at the       *)
(* pre-move world_x is at or above -0.02 and the updated speed exceeds     *)
(* MIN_LAUNCH_SPEED.                                                       *)
C11_LaunchAtOrAbove ==
    NoEdgeTick =>
        (~penguin.on_ground <=>
             (EntrySlope >= NEAR_FLAT_SLOPE /\ BaseSpeed > MIN_LAUNCH_SPEED))

(* C11, amended: such a tick ends Airborne if and only if the slope at the *)
(* pre-move world_x is strictly above -0.02 and the updated speed exceeds  *)
(* MIN_LAUNCH_SPEED; at a slope of exactly -0.02 it ends Grounded.         *)
C11_LaunchAbove ==
    NoEdgeTick =>
        (~penguin.on_ground <=>
             (EntrySlope > NEAR_FLAT_SLOPE /\ BaseSpeed > MIN_LAUNCH_SPEED))

(* C11 witness: a fast Penguin on a slope of exactly -0.02, input not      *)
(* held, that stays on the ground                                          *)
C11_Witness ==
    /\ NoEdgeTick
    /\ EntrySlope = NEAR_FLAT_SLOPE
    /\ BaseSpeed > MIN_LAUNCH_SPEED
    /\ penguin.on_ground

(* C12: world_x never decreases: for update() calls with dt >= 0 and      *)
(* AIR_DRAG * dt < 1, world_x after each call is >= world_x before it, in  *)
(* both modes and across launches and landings, and vx is positive in      *)
(* every reachable state, also after the air drag of the longest such dt.  *)
C12_WorldXMonotone ==
    /\ penguin.vx > 0
    /\ air_vx(penguin.vx, DragLimitFrames) > 0
    /\ Ticked => penguin.world_x >= pre.world_x

(* C12 witness: a touch-down on a falling slope that launched again and    *)
(* still moved forward                                                     *)
C12_Witness ==
    /\ LandingContact
    /\ ~hold_in
    /\ dt_in > 0
    /\ slope(terrain, penguin.world_x) < 0
    /\ penguin.vx > 0
    /\ penguin.world_x > pre.world_x

(* C13: the Grounded Penguin is ground-locked: at the end of every tick    *)
(* that ends Grounded, y equals Terrain.height(world_x) at the world_x     *)
(* reached by that tick's horizontal integration.                          *)
C13_GroundLocked ==
    (Ticked /\ penguin.on_ground) =>
        penguin.y = height(terrain, penguin.world_x)

(* C14: a tick that starts Airborne ends Grounded only if holding_space   *)
(* is true on that tick; when the landing condition is met with the input  *)
(* not held the Penguin touches down and launches again within the tick,   *)
(* so an Airborne Penguin whose input is not held stays Airborne.          *)
C14_LandsOnlyWhenHeld ==
    (Ticked /\ ~pre.on_ground) =>
        /\ penguin.on_ground => (hold_in /\ LandingContact)
        /\ ~hold_in => ~penguin.on_ground
        /\ (LandingContact /\ ~hold_in) =>
               /\ penguin.y = height(terrain, AirX)
               /\ penguin.speed_along_ground = Max(SPEED_FLOOR, hypot(AirVx, AirVy))
               /\ penguin.vy = ((Max(penguin.speed_along_ground, MIN_LAUNCH_SPEED)
                                    * tangent_y(slope(terrain, AirX))) \div MILLI)
                               - RELEASE_POP

(* C14 witness: a touch-down with the input not held that ended Airborne   *)
C14_Witness ==
    /\ LandingContact
    /\ ~hold_in
    /\ penguin.y = height(terrain, AirX)
    /\ penguin.speed_along_ground # pre.speed_along_ground
    /\ ~penguin.on_ground

(* C15: no tick that starts Airborne changes perfect_charge, and an        *)
(* Airborne tick that does not meet the landing condition also leaves      *)
(* speed_along_ground and the mode unchanged; a charge held at an ordinary *)
(* launch is still there at the next landing.                              *)
C15_AirKeepsCharge ==
    (Ticked /\ ~pre.on_ground) =>
        /\ penguin.perfect_charge = pre.perfect_charge
        /\ ~LandingContact =>
               /\ penguin.speed_along_ground = pre.speed_along_ground
               /\ ~penguin.on_ground

(* C15 witness: a landing with a charge carried through the flight         *)
C15_Witness ==
    /\ LandingContact
    /\ pre.perfect_charge > 0
    /\ penguin.perfect_charge = pre.perfect_charge

(* ---- the dive scenario: free play, then the input is held for good ---- *)

DiveStart == 3         \* update() calls with any input before the dive
MaxDiveTicks == 200    \* update() calls explored while diving
DiveDts == DtValues \ {0}

(* main(), lines 246-252, with the key held down and a steady frame time:  *)
(* update() runs every frame with holding_space True and the same dt       *)
DiveReady ==
    /\ ticks >= DiveStart
    /\ ticks < DiveStart + MaxDiveTicks
    /\ ~penguin.on_ground

Dive ==
    /\ DiveReady
    /\ \E dt \in DiveDts :
          /\ ticks > DiveStart => dt = dt_in
          /\ Call(dt, TRUE)

NextDive ==
    \/ UpdateGround(DtValues, BOOLEAN, DiveStart)
    \/ UpdateAir(DtValues, BOOLEAN, DiveStart)
    \/ Dive

(* main(), line 246: `while True` runs update() once per frame, so while  *)
(* a dive tick is ready the count of update() calls keeps advancing; in a  *)
(* DiveReady state the only step NextDive allows is Dive                   *)
DiveTick == DiveReady /\ ticks' = ticks + 1

SpecDive == Init /\ [][NextDive]_vars /\ WF_ticks(DiveTick)

(* C16: from any reachable Airborne state, repeated ticks with a fixed     *)
(* dt > 0 and holding_space true eventually end a tick Grounded.           *)
C16_DiveLands ==
    (ticks >= DiveStart /\ ~penguin.on_ground) ~> penguin.on_ground

(* C16 witness: a dive of several ticks that ended on the ground          *)
C16_Witness ==
    /\ ticks > DiveStart + 2
    /\ hold_in
    /\ LandingContact
    /\ penguin.on_ground

====
